---- MODULE Spec2Model ----
(***************************************************************************)
(* Model of elastica/interaction.py: the rod/plane contact and friction    *)
(* forces (linear_interpolation_slip, InteractionPlane.apply_normal_force, *)
(* AnistropicFrictionalPlane.apply_kinetic_friction).                      *)
(*                                                                         *)
(* Numbers.  The source computes in floating point; the model computes the *)
(* same expressions exactly, in fixed point:                               *)
(*   - a length is an integer count of surface_tol (1e-4), node positions  *)
(*     and node velocities are even, so that the 0.5 * (a + b) of lines    *)
(*     31 and 43 is exact;                                                 *)
(*   - a force is an integer count of 1/FScale force units, FScale being   *)
(*     4^MaxCalls: every call halves the nodal forces twice (lines 35 and  *)
(*     49-50), and stays exact for MaxCalls calls (FixedPointExact);       *)
(*   - a slip factor f is held as f * velocity_threshold (line 15 divides  *)
(*     by the threshold).                                                  *)
(* Arrays.  A numpy array of shape (3, n) is a sequence of n 3-vectors,    *)
(* element e of the sequence (1-based) being column e-1 of the array.      *)
(* Index arrays (np.where) hold the 0-based numpy indices.                 *)
(***************************************************************************)
EXTENDS Integers, Sequences, FiniteSets

VARIABLES rod, plane, calls, call, slip

vars == <<rod, plane, calls, call, slip>>

\* ------------------------------------------------------------------ bounds

\* Calls made on one rod in one behaviour.
MaxCalls == 2

\* Elements of the rod (it has one node more).
MaxElems == 2

\* Length of the batch handed to linear_interpolation_slip.
MaxBatch == 2

\* Largest slip velocity magnitude and largest threshold tried.
MaxSlip == 5

MaxThreshold == 2

\* Force quanta per force unit.
FScale == 4 ^ MaxCalls

\* ------------------------------------------------------------- 3-vectors

Zero3 == <<0, 0, 0>>

Dot(a, b) == a[1] * b[1] + a[2] * b[2] + a[3] * b[3]

Add3(a, b) == <<a[1] + b[1], a[2] + b[2], a[3] + b[3]>>

Sub3(a, b) == <<a[1] - b[1], a[2] - b[2], a[3] - b[3]>>

Scale3(c, a) == <<c * a[1], c * a[2], c * a[3]>>

\* 0.5 * x, exact on the even numbers the model hands it.
Half(x) == x \div 2

Half3(a) == <<Half(a[1]), Half(a[2]), Half(a[3])>>

Abs(x) == IF x < 0 THEN -x ELSE x

Min(a, b) == IF a < b THEN a ELSE b

Range(s) == {s[i] : i \in DOMAIN s}

RECURSIVE SumSeq3(_)
SumSeq3(s) == IF s = <<>> THEN Zero3 ELSE Add3(Head(s), SumSeq3(Tail(s)))

\* ------------------------------------------------------------ numpy pieces

\* 0.5 * (a[..., :-1] + a[..., 1:]): node values averaged onto elements.
ElementAverage(nodes) ==
    LET n == Len(nodes) - 1
    IN  [e \in 1 .. n |-> Half3(Add3(nodes[e], nodes[e + 1]))]

\* np.where(mask) for a mask over the columns: a tuple of index arrays, one per
\* dimension of the mask.  A mask of shape (n,) gives (cols,), a mask of shape
\* (1, n) gives (rows, cols) with every row index 0.
Where(mask, ndim) ==
    LET cols == SelectSeq([j \in 1 .. Len(mask) |-> j - 1],
                          LAMBDA c : mask[c + 1])
    IN  IF ndim = 1 THEN <<cols>>
        ELSE <<[i \in 1 .. Len(cols) |-> 0], cols>>

\* arr[..., tup] = 0 with tup a tuple of index arrays: the tuple is converted to
\* one integer array (np.asarray), and every index it holds selects a column.
IndexArray(tup) == UNION {Range(tup[i]) : i \in DOMAIN tup}

ZeroColumns(arr, idx) ==
    LET n == Len(arr)
    IN  [e \in 1 .. n |-> IF (e - 1) \in idx THEN Zero3 ELSE arr[e]]

\* np.outer(vector, scalars): column e is scalars[e] * vector.
Outer(v, scalars) ==
    LET n == Len(scalars)
    IN  [e \in 1 .. n |-> Scale3(scalars[e], v)]

\* ------------------------------------------- InteractionPlane.apply_normal_force

\* Number of elements of a rod.
NElems(r) == Len(r.r)

\* Line 31.
ElementX(r) == ElementAverage(r.position)

\* Line 32: normal_plane @ (element_x - origin_plane), one signed distance per
\* element.  The result has the dimensions of normal_plane: shape (n,) for a
\* normal of shape (3,), shape (1, n) for a normal of shape (1, 3).
DistanceFromPlane(r, p) ==
    LET element_x == ElementX(r)
        n == NElems(r)
    IN  [e \in 1 .. n |->
            Dot(p.normal_plane, Sub3(element_x[e], p.origin_plane))]

\* Line 33.
NoContactPts(r, p) ==
    LET distance_from_plane == DistanceFromPlane(r, p)
        n == NElems(r)
    IN  Where([e \in 1 .. n |-> distance_from_plane[e] > p.surface_tol],
              p.normal_ndim)

\* Line 34.
NodalTotalForces(r) ==
    LET n == Len(r.internal_forces)
    IN  [j \in 1 .. n |-> Add3(r.internal_forces[j], r.external_forces[j])]

\* Line 35.
TotalForces(r) == ElementAverage(NodalTotalForces(r))

\* Line 36.
ForcesNormalDirection(r, p) ==
    LET total_forces == TotalForces(r)
        n == NElems(r)
    IN  [e \in 1 .. n |-> Dot(p.normal_plane, total_forces[e])]

\* Lines 37-38: the net force along the normal, zeroed at every index that
\* np.where(forces_normal_direction > 0) holds.
ForcesNormal(r, p) ==
    LET forces_normal_direction == ForcesNormalDirection(r, p)
        n == NElems(r)
    IN  ZeroColumns(Outer(p.normal_plane, forces_normal_direction),
                    IndexArray(Where([e \in 1 .. n |->
                                         forces_normal_direction[e] > 0],
                                     p.normal_ndim)))

\* Lines 39-40.
PlanePenetration(r, p) ==
    LET distance_from_plane == DistanceFromPlane(r, p)
        n == NElems(r)
    IN  [e \in 1 .. n |-> Min(distance_from_plane[e] - r.r[e], 0)]

\* The sign of line 41 lost: a spring that pulls the rod into the plane.
ElasticForcePulling(r, p) ==
    LET plane_penetration == PlanePenetration(r, p)
        n == NElems(r)
    IN  [e \in 1 .. n |->
            Scale3(p.k * FScale * plane_penetration[e], p.normal_plane)]

\* Lines 41-42 (k is in force units per length: FScale quanta).
ElasticForce(r, p) ==
    LET plane_penetration == PlanePenetration(r, p)
        n == NElems(r)
    IN  [e \in 1 .. n |->
            Scale3(-p.k * FScale * plane_penetration[e], p.normal_plane)]

\* Lines 43-44.
NormalV(r, p) ==
    LET element_v == ElementAverage(r.velocity)
        n == NElems(r)
    IN  [e \in 1 .. n |-> Dot(p.normal_plane, element_v[e])]

\* Line 45.
DampingForce(r, p) ==
    LET normal_v == NormalV(r, p)
        n == NElems(r)
    IN  [e \in 1 .. n |-> Scale3(-p.nu * FScale * normal_v[e], p.normal_plane)]

\* Line 47 left out: the reaction is not zeroed off contact.
NormalForcePlaneUnmasked(r, p) ==
    LET forces_normal == ForcesNormal(r, p)
        n == NElems(r)
    IN  [e \in 1 .. n |-> Scale3(-1, forces_normal[e])]

\* Lines 46-47: normal_force_plane = -forces_normal, zeroed at the columns
\* no_contact_pts[1] holds (the second index array of the tuple).
NormalForcePlane(r, p) ==
    LET forces_normal == ForcesNormal(r, p)
        n == NElems(r)
    IN  ZeroColumns([e \in 1 .. n |-> Scale3(-1, forces_normal[e])],
                    Range(NoContactPts(r, p)[2]))

\* Line 48.
TotalForcePlane(r, p) ==
    LET normal_force_plane == NormalForcePlane(r, p)
        elastic_force == ElasticForce(r, p)
        damping_force == DampingForce(r, p)
        n == NElems(r)
    IN  [e \in 1 .. n |->
            Add3(Add3(normal_force_plane[e], elastic_force[e]),
                 damping_force[e])]

\* Line 50 written with the slice of line 49: both halves go to the first node.
AddToNodesSameSlice(r, f) ==
    [r EXCEPT !.external_forces =
        [j \in 1 .. (Len(f) + 1) |->
            IF j <= Len(f) THEN Add3(r.external_forces[j], f[j])
            ELSE r.external_forces[j]]]

\* The halves added into the other accumulator, rod.internal_forces.
AddToNodesInternal(r, f) ==
    [r EXCEPT !.internal_forces =
        [j \in 1 .. (Len(f) + 1) |->
            Add3(Add3(r.internal_forces[j],
                      IF j <= Len(f) THEN Half3(f[j]) ELSE Zero3),
                 IF j >= 2 THEN Half3(f[j - 1]) ELSE Zero3)]]

\* Lines 49-50: rod.external_forces[..., :-1] += 0.5 * f, then
\* rod.external_forces[..., 1:] += 0.5 * f: the rod after both additions.
AddToNodes(r, f) ==
    LET n == Len(f)
        first == [j \in 1 .. (n + 1) |->
                    IF j <= n THEN Add3(r.external_forces[j], Half3(f[j]))
                    ELSE r.external_forces[j]]
        second == [j \in 1 .. (n + 1) |->
                    IF j >= 2 THEN Add3(first[j], Half3(f[j - 1]))
                    ELSE first[j]]
    IN  [r EXCEPT !.external_forces = second]

\* What nothing was assigned to: the value of a call that raised.
Unbound == <<>>

\* Line 51 returning total_force_plane instead of normal_force_plane.
ApplyNormalForceCallReturningTotal(r, p) ==
    IF Len(NoContactPts(r, p)) < 2
    THEN [outcome |-> "IndexError", ret |-> Unbound, rod |-> r]
    ELSE [outcome |-> "returned",
          ret |-> TotalForcePlane(r, p),
          rod |-> AddToNodes(r, TotalForcePlane(r, p))]

\* Lines 30-51, the whole call: its outcome, the value it returns and the rod it
\* leaves.  no_contact_pts[1] at line 47 raises IndexError when np.where gave a
\* tuple of one array (a one-dimensional distance_from_plane); nothing has been
\* written to the rod by then.
ApplyNormalForceCall(r, p) ==
    IF Len(NoContactPts(r, p)) < 2
    THEN [outcome |-> "IndexError", ret |-> Unbound, rod |-> r]
    ELSE [outcome |-> "returned",
          ret |-> NormalForcePlane(r, p),
          rod |-> AddToNodes(r, TotalForcePlane(r, p))]

\* ------------------------------ AnistropicFrictionalPlane.apply_kinetic_friction

\* Line 30: the parameters of apply_normal_force (self, rod).
ApplyNormalForceParams == 2

\* Line 73: self.apply_normal_force(self, rod) hands the bound method self and
\* rod; with the self the binding supplies that is three positional arguments.
KineticFrictionCallArgs == 3

\* Lines 71-89, the whole call.  The call of line 73 raises TypeError before the
\* body of apply_normal_force runs, so no local of the lines after it is ever
\* assigned and the rod is not touched.  (Were the arguments to fit, line 80
\* would raise ValueError: einsum's 'ijk' subscripts on two-dimensional arrays.)
ApplyKineticFrictionCall(r, p) ==
    IF KineticFrictionCallArgs # ApplyNormalForceParams
    THEN [outcome |-> "TypeError", line |-> 73, rod |-> r,
          normal_force_plane |-> Unbound,
          slip_function |-> Unbound,
          axial_kinetic_friction_force |-> Unbound]
    ELSE [outcome |-> "ValueError", line |-> 80,
          rod |-> ApplyNormalForceCall(r, p).rod,
          normal_force_plane |-> ApplyNormalForceCall(r, p).ret,
          slip_function |-> Unbound,
          axial_kinetic_friction_force |-> Unbound]

\* ----------------------------------------------------------------- the rod

\* surface_tol, line 28: 1e-4, the unit lengths are counted in.
SurfaceTol == 1

\* Node positions and node velocities (even, see the head of the module) the
\* rod is built from, radii of its elements.
NodePositions == {<<0, 0, 0>>, <<2, 0, 4>>}

NodeVelocities == {<<2, 0, -2>>, <<-6, 0, 2>>}

\* Internal nodal forces of a rod of n elements: every node pushed toward the
\* plane; every node pushed away from it; the first element pushed toward the
\* plane and the others away; neighbouring nodes pushed opposite ways (no net
\* force on any element).
InternalForces(n) ==
    {[j \in 1 .. (n + 1) |-> <<0, 0, -4 * FScale>>],
     [j \in 1 .. (n + 1) |-> <<4 * FScale, 0, 4 * FScale>>],
     [j \in 1 .. (n + 1) |->
         IF j = 1 THEN <<0, 0, -12 * FScale>> ELSE <<4 * FScale, 0, 4 * FScale>>],
     [j \in 1 .. (n + 1) |->
         IF j % 2 = 1 THEN <<0, 0, -4 * FScale>> ELSE <<0, 0, 4 * FScale>>]}

Radii == {1, 3}

Seqs(S, n) == [1 .. n -> S]

Rods ==
    UNION {
        [position : Seqs(NodePositions, n + 1),
         velocity : Seqs(NodeVelocities, n + 1),
         tangents : {[e \in 1 .. n |-> <<1, 0, 0>>]},
         r : {[e \in 1 .. n |-> rad] : rad \in Radii},
         internal_forces : InternalForces(n),
         external_forces : {[j \in 1 .. (n + 1) |-> Zero3]}]
        : n \in 1 .. MaxElems}

\* InteractionPlane.__init__ (lines 23-28) and
\* AnistropicFrictionalPlane.__init__ (lines 59-68).  normal_ndim is the number
\* of dimensions of the array normal_plane: 1 for shape (3,), 2 for (1, 3).
Planes ==
    [k : {0, 2}, nu : {0, 1},
     origin_plane : {Zero3},
     normal_plane : {<<0, 0, 1>>},
     normal_ndim : {1, 2},
     surface_tol : {SurfaceTol},
     slip_velocity_tol : {1},
     static_mu_forward : {2}, static_mu_backward : {4}, static_mu_sideways : {3},
     kinetic_mu_forward : {1}, kinetic_mu_backward : {2},
     kinetic_mu_sideways : {1}]

\* The last call made on the rod: the method, how it ended ("returned" or the
\* exception raised), the value returned, and what apply_kinetic_friction had in
\* its locals normal_force_plane and axial_kinetic_friction_force when it ended.
NoCall ==
    [op |-> "none", outcome |-> "none", ret |-> Unbound,
     normal_force_plane |-> Unbound,
     axial_kinetic_friction_force |-> Unbound]

\* The last call of linear_interpolation_slip: its arguments, how it ended and
\* the array it returned.
NoSlip ==
    [velocity_slip |-> <<>>, velocity_threshold |-> 1, outcome |-> "none",
     slip_function |-> Unbound]

Init ==
    /\ rod \in Rods
    /\ plane \in Planes
    /\ calls = 0
    /\ call = NoCall
    /\ slip = NoSlip

ApplyNormalForce ==
    /\ calls < MaxCalls
    /\ LET res == ApplyNormalForceCall(rod, plane)
       IN  /\ rod' = res.rod
           /\ call' = [op |-> "apply_normal_force", outcome |-> res.outcome,
                       ret |-> res.ret,
                       normal_force_plane |-> Unbound,
                       axial_kinetic_friction_force |-> Unbound]
    /\ calls' = calls + 1
    /\ UNCHANGED <<plane, slip>>

ApplyKineticFriction ==
    /\ calls < MaxCalls
    /\ LET res == ApplyKineticFrictionCall(rod, plane)
       IN  /\ rod' = res.rod
           /\ call' = [op |-> "apply_kinetic_friction", outcome |-> res.outcome,
                       ret |-> Unbound,
                       normal_force_plane |-> res.normal_force_plane,
                       axial_kinetic_friction_force |->
                           res.axial_kinetic_friction_force]
    /\ calls' = calls + 1
    /\ UNCHANGED <<plane, slip>>

Next == ApplyNormalForce \/ ApplyKineticFriction

Spec == Init /\ [][Next]_vars

\* ------------------------------------------------- linear_interpolation_slip

\* arr[0, idx] = vals for an index array idx and the values broadcast onto it,
\* both read in row-major order: the assignments are made one after the other,
\* so that the last one made to a column stays.
RECURSIVE AssignInOrder(_, _, _)
AssignInOrder(arr, idx, vals) ==
    IF idx = <<>> THEN arr
    ELSE AssignInOrder([arr EXCEPT ![Head(idx) + 1] = Head(vals)],
                       Tail(idx), Tail(vals))

\* The "- 1.0" of line 16 left out.
SlipValueUnshifted(v, velocity_threshold) ==
    Abs(velocity_threshold - Min(velocity_threshold, Abs(v)))

\* Lines 14-16, the right-hand side, for one slip velocity:
\* fabs(1.0 - minimum(1.0, abs_velocity_slip / velocity_threshold - 1.0)),
\* times velocity_threshold.
SlipValue(v, velocity_threshold) ==
    Abs(velocity_threshold - Min(velocity_threshold, Abs(v) - velocity_threshold))

\* Lines 9-17, the whole call on a velocity_slip of shape (1, n).
\*   line 12: slip_function is np.ones((1, n));
\*   line 13: slip_points is np.where of a two-dimensional mask, the tuple
\*            (rows, cols) of m indices each;
\*   line 14: slip_function[0, slip_points] indexes with that tuple as one array
\*            of shape (2, m), and the right-hand side is the whole array of
\*            shape (1, n), not its slip points: numpy broadcasts it onto
\*            (2, m) when n = m or n = 1 and raises ValueError otherwise.
LinearInterpolationSlipCall(velocity_slip, velocity_threshold) ==
    LET n == Len(velocity_slip)
        ones == [i \in 1 .. n |-> velocity_threshold]
        slip_points == Where([i \in 1 .. n |->
                                 Abs(Abs(velocity_slip[i])) > velocity_threshold],
                             2)
        m == Len(slip_points[2])
        rhs == [i \in 1 .. n |-> SlipValue(velocity_slip[i], velocity_threshold)]
        row == [q \in 1 .. m |-> IF n = m THEN rhs[q] ELSE rhs[1]]
    IN  IF n # m /\ n # 1
        THEN [outcome |-> "ValueError", slip_function |-> Unbound]
        ELSE [outcome |-> "returned",
              slip_function |-> AssignInOrder(ones,
                                              slip_points[1] \o slip_points[2],
                                              row \o row)]

SlipInputs ==
    UNION {Seqs((-MaxSlip) .. MaxSlip, n) : n \in 1 .. MaxBatch}

\* A rod and a plane for the behaviours that only call the interpolator.
AnyRod == CHOOSE r \in Rods : NElems(r) = 1

AnyPlane == CHOOSE p \in Planes : TRUE

InitSlip ==
    /\ rod = AnyRod
    /\ plane = AnyPlane
    /\ calls = 0
    /\ call = NoCall
    /\ slip \in [velocity_slip : SlipInputs,
                 velocity_threshold : 1 .. MaxThreshold,
                 outcome : {"none"},
                 slip_function : {Unbound}]

LinearInterpolationSlip ==
    /\ slip.outcome = "none"
    /\ LET res == LinearInterpolationSlipCall(slip.velocity_slip,
                                              slip.velocity_threshold)
       IN  slip' = [slip EXCEPT !.outcome = res.outcome,
                                !.slip_function = res.slip_function]
    /\ UNCHANGED <<rod, plane, calls, call>>

NextSlip == LinearInterpolationSlip

SpecSlip == InitSlip /\ [][NextSlip]_vars

\* ================================================================ properties

\* The fixed point is exact: after c calls every component of the external
\* forces is a multiple of 4^(MaxCalls - c), so no Half ever rounds.
FixedPointExact ==
    \A j \in DOMAIN rod.external_forces : \A i \in 1 .. 3 :
        rod.external_forces[j][i] % (4 ^ (MaxCalls - calls)) = 0

Elems == 1 .. NElems(rod)

\* The last call was apply_normal_force and it returned.
NormalForceReturned ==
    call.op = "apply_normal_force" /\ call.outcome = "returned"

\* Element e is off contact (line 33); the rod's geometry never changes.
NoContact(e) == DistanceFromPlane(rod, plane)[e] > plane.surface_tol

\* The force one call added on behalf of element e, recovered from what the
\* call did to the nodes: node 1 received half the force of element 1, node j
\* half of element j-1 and half of element j.
RECURSIVE ElementForceAdded(_, _, _)
ElementForceAdded(before, after, e) ==
    IF e = 1 THEN Scale3(2, Sub3(after[1], before[1]))
    ELSE Sub3(Scale3(2, Sub3(after[e], before[e])),
              ElementForceAdded(before, after, e - 1))

\* The step is a call of apply_normal_force that returned.
NormalForceStep ==
    /\ calls' = calls + 1
    /\ call'.op = "apply_normal_force"
    /\ call'.outcome = "returned"

Added(e) == ElementForceAdded(rod.external_forces, rod'.external_forces, e)

\* C1: whenever apply_normal_force returns, the vector it returns for an
\* element whose midpoint is farther than surface_tol from the plane is the
\* zero vector.
C1_NonContactReturnsZero ==
    NormalForceReturned =>
        \A e \in Elems : NoContact(e) => call.ret[e] = Zero3

\* C1's case: a first call returned, an element off contact carries a net
\* internal force toward the plane (its reaction would not be zero were it in
\* contact), and the returned array is not zero everywhere.
C1_Witness ==
    /\ NormalForceReturned
    /\ calls = 1
    /\ \E e \in Elems :
          /\ NoContact(e)
          /\ Dot(plane.normal_plane, ElementAverage(rod.internal_forces)[e]) < 0
    /\ \E e \in Elems : call.ret[e] # Zero3

\* C2: a call of apply_normal_force adds the zero vector to the external
\* forces on behalf of every element off contact.
C2_NoForceOffContact ==
    [][NormalForceStep => \A e \in Elems : NoContact(e) => Added(e) = Zero3]_vars

\* C3, as claimed: the force a call adds on behalf of an element never has a
\* negative component along the plane normal.
C3_NeverPulls ==
    [][NormalForceStep =>
          \A e \in Elems : Dot(plane.normal_plane, Added(e)) >= 0]_vars

\* C3, amended: the force a call adds on behalf of an element that is not
\* moving away from the plane (normal velocity <= 0) has a component >= 0
\* along the plane normal.
C3_NeverPullsUnlessReceding ==
    [][NormalForceStep =>
          \A e \in Elems :
              NormalV(rod, plane)[e] <= 0 =>
                  Dot(plane.normal_plane, Added(e)) >= 0]_vars

\* C3's case: a call returned on a plane with stiffness and damping, an
\* element that penetrates the plane moves toward it, and the nodes received
\* force.
C3_Witness ==
    /\ NormalForceReturned
    /\ plane.k > 0 /\ plane.nu > 0
    /\ \E e \in Elems :
          /\ NormalV(rod, plane)[e] < 0
          /\ PlanePenetration(rod, plane)[e] < 0
          /\ ~NoContact(e)
          /\ Dot(plane.normal_plane, rod.external_forces[e]) > 0

\* C4, as claimed: the vector returned for an element is the force whose halves
\* the call added to the element's two nodes.
C4_ReturnsWhatItAdded ==
    [][NormalForceStep => \A e \in Elems : call'.ret[e] = Added(e)]_vars

\* C4, amended: the force whose halves the call added to an element's two
\* nodes is the vector returned for the element plus the element's elastic and
\* damping forces; the returned vector is the projected reaction alone.
C4_AddedIsReturnedPlusElasticPlusDamping ==
    [][NormalForceStep =>
          \A e \in Elems :
              Added(e) = Add3(Add3(call'.ret[e], ElasticForce(rod, plane)[e]),
                              DampingForce(rod, plane)[e])]_vars

\* C4's case: a call returned a non-zero reaction for an element that also has
\* an elastic and a damping force.
C4_Witness ==
    /\ NormalForceReturned
    /\ \E e \in Elems :
          /\ call.ret[e] # Zero3
          /\ ElasticForce(rod, plane)[e] # Zero3
          /\ DampingForce(rod, plane)[e] # Zero3

\* C8: a call of apply_normal_force raises the external force of node j by
\* half the force of element j-1 (if there is one) plus half the force of
\* element j (if there is one), the element forces being those of line 48, and
\* the increments of all nodes sum to the sum of the element forces.
C8_NodeForceConservation ==
    [][NormalForceStep =>
          LET f == TotalForcePlane(rod, plane)
              n == NElems(rod)
              inc == [j \in 1 .. (n + 1) |->
                         Sub3(rod'.external_forces[j], rod.external_forces[j])]
          IN  /\ \A j \in 1 .. (n + 1) :
                    Scale3(2, inc[j]) =
                        Add3(IF j >= 2 THEN f[j - 1] ELSE Zero3,
                             IF j <= n THEN f[j] ELSE Zero3)
              /\ SumSeq3(inc) = SumSeq3(f)]_vars

\* C8's case: a first call returned on a rod of at least two elements whose
\* forces differ: the end nodes received different non-zero halves and the
\* node between them received both.
C8_Witness ==
    /\ NormalForceReturned
    /\ calls = 1
    /\ NElems(rod) = 2
    /\ rod.external_forces[1] # Zero3
    /\ rod.external_forces[3] # Zero3
    /\ rod.external_forces[1] # rod.external_forces[3]
    /\ rod.external_forces[2] =
          Add3(rod.external_forces[1], rod.external_forces[3])

\* C9: no call changes the rod's position, velocity, tangents, radii or
\* internal forces, nor the plane; a call that raises changes nothing at all.
C9_OnlyExternalForcesChange ==
    [][/\ rod'.position = rod.position
       /\ rod'.velocity = rod.velocity
       /\ rod'.tangents = rod.tangents
       /\ rod'.r = rod.r
       /\ rod'.internal_forces = rod.internal_forces
       /\ plane' = plane
       /\ (call'.outcome # "returned" => rod' = rod)]_vars

\* C9's case: calls of both methods have been made and the external forces
\* have been added to.
C9_Witness ==
    /\ calls >= 2
    /\ call.op = "apply_kinetic_friction"
    /\ \E j \in DOMAIN rod.external_forces : rod.external_forces[j] # Zero3

\* The axial slip velocity of element e: the signed projection of the
\* element-averaged velocity onto the element's tangent.
AxialSlipVelocity(e) == Dot(ElementAverage(rod.velocity)[e], rod.tangents[e])

SqNorm(a) == Dot(a, a)

\* The kinetic coefficient the direction of slip selects.
SelectedMu(e) ==
    IF AxialSlipVelocity(e) > 0 THEN plane.kinetic_mu_backward
    ELSE plane.kinetic_mu_forward

\* C6: after apply_kinetic_friction, for every element in contact whose axial
\* slip is faster than slip_velocity_tol, the axial friction force the call
\* computed has magnitude mu * |normal_force| (compared squared) and does not
\* point along the slip.
C6_KineticFrictionMagnitude ==
    call.op = "apply_kinetic_friction" =>
        \A e \in Elems :
            (~NoContact(e) /\ Abs(AxialSlipVelocity(e)) > plane.slip_velocity_tol)
            => /\ call.axial_kinetic_friction_force # Unbound
               /\ SqNorm(call.axial_kinetic_friction_force[e]) =
                      SelectedMu(e) * SelectedMu(e)
                          * SqNorm(call.normal_force_plane[e])
               /\ Dot(call.axial_kinetic_friction_force[e], rod.tangents[e])
                      * AxialSlipVelocity(e) <= 0

\* C7: after apply_kinetic_friction, for two elements of equal normal force
\* whose axial slips are equal and opposite, the friction force of the one
\* slipping forward (positive projection, backward coefficient) and that of the
\* other are in the ratio kinetic_mu_backward : kinetic_mu_forward (compared
\* squared and cross-multiplied).
C7_Anisotropy ==
    call.op = "apply_kinetic_friction" =>
        \A e1, e2 \in Elems :
            (/\ AxialSlipVelocity(e1) > 0
             /\ AxialSlipVelocity(e2) = -AxialSlipVelocity(e1))
            => /\ call.axial_kinetic_friction_force # Unbound
               /\ call.normal_force_plane # Unbound
               /\ SqNorm(call.normal_force_plane[e1]) =
                      SqNorm(call.normal_force_plane[e2])
                  => SqNorm(call.axial_kinetic_friction_force[e1])
                         * plane.kinetic_mu_forward * plane.kinetic_mu_forward
                     = SqNorm(call.axial_kinetic_friction_force[e2])
                         * plane.kinetic_mu_backward * plane.kinetic_mu_backward

\* C10: apply_kinetic_friction raises nothing: it ends by returning, having
\* obtained the normal force and computed the axial friction force.
C10_KineticFrictionRaisesNothing ==
    call.op = "apply_kinetic_friction" =>
        /\ call.outcome = "returned"
        /\ call.normal_force_plane # Unbound
        /\ call.axial_kinetic_friction_force # Unbound

\* ------------------------------------------- linear_interpolation_slip (C5)

SlipReturned == slip.outcome = "returned"

Batch == DOMAIN slip.velocity_slip

SlipSpeed(i) == Abs(slip.velocity_slip[i])

====
